---- MODULE Spec2Model ----
(***************************************************************************)
(* Huffman encoder/decoder of src/huffman-encoder-c/huffman.c as a state   *)
(* machine: one process run of `encode` followed by one of `decode`        *)
(* (Spec), `decode` on arbitrary container files (SpecDecode), and the     *)
(* bit writer on arbitrary bit sequences (SpecBits).                       *)
(*                                                                         *)
(* 32-bit words (unsigned int frequencies, int weights) are carried as     *)
(* their two's-complement representative in -2^31 .. 2^31-1: the unsigned  *)
(* test `x > 0` is `x # 0` on the representative and the conversion        *)
(* unsigned int -> int (node->weight = weight) is the identity on it.      *)
(***************************************************************************)
EXTENDS Integers, Sequences, FiniteSets, TLC

\* ---------------------------------------------------------------- bounds
MaxLen == 5          \* longest input file given to encode, in bytes
MaxBits == 9         \* longest bit sequence given to the bit writer alone
MaxEntries == 2      \* most (symbol, frequency) entries in a crafted header
MaxBody == 1         \* most body bytes in a crafted container
MaxFreq == 3         \* largest small count in a frequency table given to the tree builder
MaxLong == 3         \* most elements (bytes and runs) of an input file given as runs

\* byte values that occur in input files: 'a', 'b', 'c' and 0xC8 (negative
\* as char)
Symbols == {97, 98, 99, 200}

\* ------------------------------------------------------ program constants
ENCODING_TABLE_SIZE == 256
HUFF == 1213548102   \* 0x48554646
EOF == -1
NULL == 0
\* value of a field malloc() left unset (create_parent_node never sets
\* character); no char has this value, so a read of it would show
Indeterminate == 1000
\* a pointer read from outside any object (nodes[0] of an empty array)
WILD == -1

Byte == 0 .. (ENCODING_TABLE_SIZE - 1)

\* An input file too long to write out byte by byte is given with runs:
\* the element 256 + b of `input` stands for 2^32 consecutive bytes b.
Run2To32(b) == ENCODING_TABLE_SIZE + b
IsRun(x) == x >= ENCODING_TABLE_SIZE
RunByte(x) == x - ENCODING_TABLE_SIZE

\* ------------------------------------------------------------ conversions
\* (char) of an unsigned char value: values above 127 become negative
ToChar(b) == IF b >= 128 THEN b - 256 ELSE b
\* (unsigned char) of a char or int value
ToUChar(c) == c % 256
\* value & 0xFF after value >> shift, on the two's-complement representative
ByteAt(value, shift) == (value \div (2 ^ shift)) % 256

\* ----------------------------------------------------------------- files
\* A file with the one stdio stream open on it: its bytes, the stream
\* position (0-based) and the stream's end-of-file indicator.
NoFile == [exists |-> FALSE, bytes |-> << >>, pos |-> 0, eof |-> FALSE]

\* fopen(name, "w"/"wb"): the file is created or truncated
fopen_w == [exists |-> TRUE, bytes |-> << >>, pos |-> 0, eof |-> FALSE]

\* fopen(name, "r") of an existing file
fopen_r(f) == [f EXCEPT !.pos = 0, !.eof = FALSE]

\* fputc at the stream position: overwrite inside the file, append at its end
fputc(f, c) ==
    [f EXCEPT !.bytes = IF f.pos < Len(f.bytes)
                        THEN [f.bytes EXCEPT ![f.pos + 1] = ToUChar(c)]
                        ELSE Append(f.bytes, ToUChar(c)),
              !.pos = f.pos + 1]

\* fgetc: the byte at the stream position, or EOF past the end; the
\* k-th next fgetc (k = 0 for the next one) returns PeekAt(f, k)
PeekAt(f, k) == IF f.pos + k < Len(f.bytes) THEN f.bytes[f.pos + k + 1] ELSE EOF

fgetc(f) == PeekAt(f, 0)

\* the stream after n calls of fgetc
Skip(f, n) ==
    IF f.pos + n <= Len(f.bytes)
    THEN [f EXCEPT !.pos = f.pos + n]
    ELSE [f EXCEPT !.pos = Len(f.bytes), !.eof = TRUE]

\* fseek(f, offset, SEEK_SET)
fseek(f, offset) == [f EXCEPT !.pos = offset, !.eof = FALSE]

write_uint8(f, value) == fputc(f, ByteAt(value, 0))

write_uint32(f, value) ==
    fputc(fputc(fputc(fputc(f, ByteAt(value, 24)), ByteAt(value, 16)),
                ByteAt(value, 8)), ByteAt(value, 0))

\* read_uint32: value |= fgetc() << 24, 16, 8, 0.  fgetc returns int, so an
\* EOF (-1) shifted left sets every bit from its position upwards: result
\* byte k is 255 when the read for it or for a lower byte returned EOF.
\* The representative of the 32-bit result is returned; the stream after
\* the call is Skip(f, 4).
read_uint32(f) ==
    LET byte(k) == IF \E q \in k .. 3 : PeekAt(f, q) = EOF THEN 255 ELSE PeekAt(f, k)
    IN  ToChar(byte(0)) * 16777216 + byte(1) * 65536 + byte(2) * 256 + byte(3)

\* ------------------------------------------------------------ Huffman tree
\* the heap of malloc'd HuffmanNode objects is a sequence; a pointer is an
\* index into it, NULL is 0

create_node(character, weight) ==
    [weight |-> weight, character |-> ToChar(character),
     left |-> NULL, right |-> NULL]

\* left->weight + right->weight is an int addition.  IntOverflow tells
\* whether the sum of two int values lies outside int; Add32 is the value
\* the add instruction leaves then, the sum modulo 2^32.
IntOverflow(x, y) ==
    \/ (x > 0 /\ y > 0 /\ x > 2147483647 - y)
    \/ (x < 0 /\ y < 0 /\ x < (-2147483647 - 1) - y)

Add32(x, y) ==
    IF x > 0 /\ y > 0 /\ x > 2147483647 - y
    THEN (x - 2147483647 - 1) + (y - 2147483647 - 1)
    ELSE IF x < 0 /\ y < 0 /\ x < (-2147483647 - 1) - y
         THEN (x + 2147483647 + 1) + (y + 2147483647 + 1)
         ELSE x + y

\* create_parent_node with the children exchanged
create_parent_node_swapped(h, left, right) ==
    [weight |-> Add32(h[left].weight, h[right].weight), character |-> Indeterminate,
     left |-> right, right |-> left]

create_parent_node(h, left, right) ==
    [weight |-> Add32(h[left].weight, h[right].weight), character |-> Indeterminate,
     left |-> left, right |-> right]

is_leaf(h, node) == h[node].left = NULL /\ h[node].right = NULL

Swap(ns, j) == [ns EXCEPT ![j] = ns[j + 1], ![j + 1] = ns[j]]

\* inner loop of sort_nodes: j runs over the first `last` adjacent pairs
RECURSIVE BubblePass(_, _, _, _)
BubblePass(h, ns, j, last) ==
    IF j > last THEN ns
    ELSE IF h[ns[j]].weight > h[ns[j + 1]].weight
         THEN BubblePass(h, Swap(ns, j), j + 1, last)
         ELSE BubblePass(h, ns, j + 1, last)

\* outer loop of sort_nodes: i = 0 .. count - 2
RECURSIVE BubbleSort(_, _, _)
BubbleSort(h, ns, i) ==
    IF i >= Len(ns) - 1 THEN ns
    ELSE BubbleSort(h, BubblePass(h, ns, 1, Len(ns) - i - 1), i + 1)

sort_nodes(h, ns) == BubbleSort(h, ns, 0)

\* the indices a loop `for (i = 0; i < 256; i++) if (f[i] > 0)` visits, in
\* the order it visits them
RECURSIVE Ascending(_)
Ascending(S) ==
    IF S = {} THEN << >>
    ELSE LET m == CHOOSE x \in S : \A y \in S : x <= y
         IN  << m >> \o Ascending(S \ {m})

Present(f) == Ascending({i \in Byte : f[i] # 0})

\* ------------------------------------------------------------ prefix table
EmptyCode == [code |-> << >>, length |-> 0, exists |-> 0]

\* build_encoding_table writing '0' for the right edge too
RECURSIVE build_encoding_table_same_bit(_, _, _, _, _)
build_encoding_table_same_bit(h, node, code, depth, table) ==
    IF h[node].left = NULL /\ h[node].right = NULL
    THEN [table EXCEPT ![ToUChar(h[node].character)] =
              [code |-> SubSeq(code, 1, depth), length |-> @.length, exists |-> 1]]
    ELSE LET t1 == IF h[node].left # NULL
                   THEN build_encoding_table_same_bit(h, h[node].left,
                            Append(SubSeq(code, 1, depth), "0"), depth + 1, table)
                   ELSE table
         IN  IF h[node].right # NULL
             THEN build_encoding_table_same_bit(h, h[node].right,
                      Append(SubSeq(code, 1, depth), "0"), depth + 1, t1)
             ELSE t1

\* build_encoding_table copying one character more than depth into the entry
RECURSIVE build_encoding_table_one_more(_, _, _, _, _)
build_encoding_table_one_more(h, node, code, depth, table) ==
    IF h[node].left = NULL /\ h[node].right = NULL
    THEN [table EXCEPT ![ToUChar(h[node].character)] =
              [code |-> Append(SubSeq(code, 1, depth), "0"),
               length |-> @.length, exists |-> 1]]
    ELSE LET t1 == IF h[node].left # NULL
                   THEN build_encoding_table_one_more(h, h[node].left,
                            Append(SubSeq(code, 1, depth), "0"), depth + 1, table)
                   ELSE table
         IN  IF h[node].right # NULL
             THEN build_encoding_table_one_more(h, h[node].right,
                      Append(SubSeq(code, 1, depth), "1"), depth + 1, t1)
             ELSE t1

RECURSIVE build_encoding_table(_, _, _, _, _)
build_encoding_table(h, node, code, depth, table) ==
    IF h[node].left = NULL /\ h[node].right = NULL
    THEN [table EXCEPT ![ToUChar(h[node].character)] =
              [code |-> SubSeq(code, 1, depth), length |-> @.length, exists |-> 1]]
    ELSE LET t1 == IF h[node].left # NULL
                   THEN build_encoding_table(h, h[node].left,
                            Append(SubSeq(code, 1, depth), "0"), depth + 1, table)
                   ELSE table
         IN  IF h[node].right # NULL
             THEN build_encoding_table(h, h[node].right,
                      Append(SubSeq(code, 1, depth), "1"), depth + 1, t1)
             ELSE t1

\* -------------------------------------------------------------- bit writer
NewWriter == [current_byte |-> 0, bits_filled |-> 0, total_bits_written |-> 0]

\* current_byte |= 1 << (7 - bits_filled); the bit is clear before, so OR adds
SetBit(byte, k) == IF (byte \div (2 ^ k)) % 2 = 1 THEN byte ELSE byte + 2 ^ k

\* write_bit: the writer and its output stream after the call
write_bit(w, f, bit) ==
    LET b == IF bit # 0 THEN SetBit(w.current_byte, 7 - w.bits_filled)
             ELSE w.current_byte
        filled == w.bits_filled + 1
        total == w.total_bits_written + 1
    IN  IF filled = 8
        THEN [w |-> [current_byte |-> 0, bits_filled |-> 0,
                     total_bits_written |-> total],
              f |-> fputc(f, b)]
        ELSE [w |-> [current_byte |-> b, bits_filled |-> filled,
                     total_bits_written |-> total],
              f |-> f]

\* flush_bits without the test bits_filled > 0
flush_bits_always(w, f) ==
    [w |-> [w EXCEPT !.current_byte = 0, !.bits_filled = 0],
     f |-> fputc(f, w.current_byte),
     padding |-> 8 - w.bits_filled]

\* flush_bits: the writer, its output stream and the returned padding
flush_bits(w, f) ==
    IF w.bits_filled > 0
    THEN [w |-> [w EXCEPT !.current_byte = 0, !.bits_filled = 0],
          f |-> fputc(f, w.current_byte),
          padding |-> 8 - w.bits_filled]
    ELSE [w |-> w, f |-> f, padding |-> 0]

RECURSIVE write_code(_, _, _, _)
write_code(w, f, code_string, i) ==
    IF i > Len(code_string) THEN [w |-> w, f |-> f]
    ELSE LET r == write_bit(w, f, IF code_string[i] = "1" THEN 1 ELSE 0)
         IN  write_code(r.w, r.f, code_string, i + 1)

\* ------------------------------------------------------------------ state
VARIABLES
    cmd,             \* command of the running process: "encode", "decode", "bits"
    pc,              \* its position in the code
    input,           \* bytes of the file given to encode
    container,       \* the container file and the stream open on it
    output,          \* the file decode writes and the stream open on it
    freq,            \* encode: freq[]; decode: frequencies[] / header->frequencies
    heap,            \* the HuffmanNode objects allocated so far
    nodes,           \* build_huffman_tree: nodes[0 .. node_count - 1]
    tree,            \* the root build_huffman_tree returned
    encoding_table,  \* encode: encoding_table[]
    writer,          \* encode_file: the BitWriter
    padding,         \* encode_file: the value flush_bits returned
    header,          \* decode: the FileHeader read_header returned
    dec,             \* decode_file: data, total_bits, reader, current, counters
    stderr,          \* what the process wrote to stderr
    sent,            \* history: the bits passed to write_bit so far
    built            \* history: the heap and root encode's build_huffman_tree returned

vars == << cmd, pc, input, container, output, freq, heap, nodes, tree,
           encoding_table, writer, padding, header, dec, stderr, sent, built >>

ZeroFreq == [i \in Byte |-> 0]
NoTree == [heap |-> << >>, tree |-> NULL]
ZeroTable == [i \in Byte |-> EmptyCode]
NoHeader == [valid |-> FALSE, num_unique_chars |-> 0, padding_bits |-> 0]
NoDec == [data |-> << >>, wrapped |-> FALSE, total_bits |-> 0,
          byte_index |-> 0, bit_index |-> 0, current |-> NULL,
          chars_decoded |-> 0, bits_read |-> 0]

\* the state of a process as main() is entered
FreshProcess ==
    /\ freq = ZeroFreq /\ heap = << >> /\ nodes = << >> /\ tree = NULL
    /\ encoding_table = ZeroTable /\ writer = NewWriter /\ padding = 0
    /\ header = NoHeader /\ dec = NoDec /\ stderr = "" /\ sent = << >>

\* all byte sequences of length at most n over the set S
SeqsUpTo(S, n) == UNION { [1 .. k -> S] : k \in 0 .. n }

Init ==
    /\ cmd = "encode" /\ pc = "encode"
    /\ input \in SeqsUpTo(Symbols, MaxLen)
    /\ container = NoFile /\ output = NoFile
    /\ FreshProcess
    /\ built = NoTree

\* ----------------------------------------------------------------- encode
\* encode, lines 392-398: while ((c = fgetc(file)) != EOF) freq[c]++
\* freq[c] is an unsigned int: the 2^32 increments of a run bring it back
\* to the value it had
RECURSIVE CountFrom(_, _, _)
CountFrom(f, bytes, i) ==
    IF i > Len(bytes) THEN f
    ELSE IF IsRun(bytes[i])
         THEN CountFrom(f, bytes, i + 1)
         ELSE CountFrom([f EXCEPT ![bytes[i]] = @ + 1], bytes, i + 1)

CountFrequencies ==
    /\ pc = "encode"
    /\ freq' = CountFrom(ZeroFreq, input, 1)
    /\ pc' = "build"
    /\ UNCHANGED << cmd, input, container, output, heap, nodes, tree,
                    encoding_table, writer, padding, header, dec, stderr, sent,
                    built >>

\* build_huffman_tree, lines 68-81: one leaf per symbol with freq[i] > 0
Leaves(f) == [k \in 1 .. Len(Present(f)) |->
                 create_node(Present(f)[k], f[Present(f)[k]])]

BuildInit ==
    /\ pc = "build"
    /\ heap' = heap \o Leaves(freq)
    /\ nodes' = [k \in 1 .. Len(Present(freq)) |-> Len(heap) + k]
    /\ pc' = "merge"
    /\ UNCHANGED << cmd, input, container, output, freq, tree, encoding_table,
                    writer, padding, header, dec, stderr, sent, built >>

\* build_huffman_tree, lines 83-94: one round of while (node_count > 1)
\* A sum of weights outside int is undefined: the process goes on with the
\* wrapped sum, as the add instruction leaves it, or nothing is known of
\* what it does next ("undefined").
MergeRound ==
    /\ pc = "merge"
    /\ Len(nodes) > 1
    /\ LET sorted == sort_nodes(heap, nodes)
           parent == create_parent_node(heap, sorted[1], sorted[2])
       IN  /\ heap' = Append(heap, parent)
           /\ nodes' = << Len(heap) + 1 >> \o SubSeq(sorted, 3, Len(sorted))
           /\ IF IntOverflow(heap[sorted[1]].weight, heap[sorted[2]].weight)
              THEN pc' \in {pc, "undefined"}
              ELSE pc' = pc
    /\ UNCHANGED << cmd, input, container, output, freq, tree,
                    encoding_table, writer, padding, header, dec, stderr, sent,
                    built >>

\* build_huffman_tree, line 96: return nodes[0].  With node_count = 0 the
\* array has no element and the value read is whatever lies there.
BuildReturn ==
    /\ pc = "merge"
    /\ Len(nodes) <= 1
    /\ tree' = IF Len(nodes) = 0 THEN WILD ELSE nodes[1]
    /\ built' = IF cmd = "decode" THEN built ELSE [heap |-> heap, tree |-> tree']
    /\ pc' = IF cmd = "decode" THEN "decode_file" ELSE "table"
    /\ UNCHANGED << cmd, input, container, output, freq, heap, nodes,
                    encoding_table, writer, padding, header, dec, stderr, sent >>

\* encode, lines 404-407: build_encoding_table(tree, code_buffer, 0, table),
\* then free_huffman_tree(tree).  A wild tree pointer is dereferenced: the
\* process is killed ("segfault"), or it goes on from whatever bytes it
\* found there ("undefined": nothing is known of what it does next).
BuildEncodingTable ==
    /\ pc = "table"
    /\ IF tree = WILD
       THEN /\ pc' \in {"segfault", "undefined"}
            /\ UNCHANGED << encoding_table, heap >>
       ELSE /\ encoding_table' = build_encoding_table(heap, tree, << >>, 0, ZeroTable)
            /\ heap' = << >>
            /\ pc' = "open"
    /\ UNCHANGED << cmd, input, container, output, freq, nodes, tree,
                    writer, padding, header, dec, stderr, sent, built >>

\* encode, lines 417-418: fopen(output_filename, "wb")
OpenOutput ==
    /\ pc = "open"
    /\ container' = fopen_w
    /\ pc' = "header"
    /\ UNCHANGED << cmd, input, output, freq, heap, nodes, tree, encoding_table,
                    writer, padding, header, dec, stderr, sent, built >>

\* the count taken with freq[i] > 1
NumUniqueAboveOne(f) == Cardinality({i \in Byte : f[i] > 1})

\* write_provisionary_header, lines 191-196: count the entries with freq > 0
NumUnique(f) == Cardinality({i \in Byte : f[i] # 0})

\* write_provisionary_header, lines 203-208: the entries, ascending symbol
RECURSIVE WriteEntries(_, _, _, _)
WriteEntries(file, f, present, k) ==
    IF k > Len(present) THEN file
    ELSE WriteEntries(write_uint32(fputc(file, present[k]), f[present[k]]),
                      f, present, k + 1)

write_provisionary_header(file, f) ==
    WriteEntries(write_uint8(write_uint32(write_uint32(file, HUFF),
                                          NumUnique(f)), 0), f, Present(f), 1)

\* encode_file, line 290
WriteProvisionaryHeader ==
    /\ pc = "header"
    /\ container' = write_provisionary_header(container, freq)
    /\ pc' = "body"
    /\ UNCHANGED << cmd, input, output, freq, heap, nodes, tree, encoding_table,
                    writer, padding, header, dec, stderr, sent, built >>

\* encode_file, lines 292-297: write_code of every input byte's code
\* The bytes of a run occur nowhere else in the input (LongInputs), so
\* their count is 0, their table entry is the zero-initialised one, and
\* write_code of its empty code, 2^32 times over, writes no bit.
RECURSIVE EncodeFrom(_, _, _, _, _)
EncodeFrom(w, file, table, bytes, i) ==
    IF i > Len(bytes) THEN [w |-> w, f |-> file]
    ELSE IF IsRun(bytes[i])
         THEN EncodeFrom(w, file, table, bytes, i + 1)
         ELSE LET r == write_code(w, file, table[bytes[i]].code, 1)
              IN  EncodeFrom(r.w, r.f, table, bytes, i + 1)

EncodeBody ==
    /\ pc = "body"
    /\ LET r == EncodeFrom(NewWriter, container, encoding_table, input, 1)
       IN  /\ writer' = r.w
           /\ container' = r.f
    /\ pc' = "flush"
    /\ UNCHANGED << cmd, input, output, freq, heap, nodes, tree, encoding_table,
                    padding, header, dec, stderr, sent, built >>

\* encode_file, line 298: int padding = flush_bits(&writer)
FlushBits ==
    /\ pc = "flush"
    /\ LET r == flush_bits(writer, container)
       IN  /\ writer' = r.w
           /\ container' = r.f
           /\ padding' = r.padding
    /\ pc' = "patch"
    /\ UNCHANGED << cmd, input, output, freq, heap, nodes, tree, encoding_table,
                    header, dec, stderr, sent, built >>

\* write_padding_to_header seeking to offset 9
write_padding_to_header_at9(file, pad) == write_uint8(fseek(file, 9), pad)

\* write_padding_to_header, lines 211-214
write_padding_to_header(file, pad) == write_uint8(fseek(file, 8), pad)

\* encode_file, line 299, and encode, lines 420-423: patch, close, return
WritePaddingToHeader ==
    /\ pc = "patch"
    /\ container' = write_padding_to_header(container, padding)
    /\ pc' = "exit0"
    /\ UNCHANGED << cmd, input, output, freq, heap, nodes, tree, encoding_table,
                    writer, padding, header, dec, stderr, sent, built >>

NextEncode ==
    \/ CountFrequencies \/ BuildInit \/ MergeRound \/ BuildReturn
    \/ BuildEncodingTable \/ OpenOutput \/ WriteProvisionaryHeader
    \/ EncodeBody \/ FlushBits \/ WritePaddingToHeader

\* ----------------------------------------------------------------- decode
\* the shell runs `decode` on the container file once `encode` has ended
RunDecode ==
    /\ cmd = "encode"
    /\ pc \in {"exit0", "segfault"}
    /\ cmd' = "decode"
    /\ pc' = "decode"
    /\ freq' = ZeroFreq /\ heap' = << >> /\ nodes' = << >> /\ tree' = NULL
    /\ encoding_table' = ZeroTable /\ writer' = NewWriter /\ padding' = 0
    /\ header' = NoHeader /\ dec' = NoDec /\ stderr' = "" /\ sent' = << >>
    /\ UNCHANGED << input, container, output, built >>

\* read_header, lines 228-231: the loop over num_unique entries.  Once the
\* stream is at its end every further round reads EOF only and repeats the
\* same assignment, frequenties[(unsigned char)EOF] = 0xFFFFFFFF.
RECURSIVE ReadEntries(_, _, _)
ReadEntries(file, f, remaining) ==
    IF remaining = 0 THEN [f |-> file, freq |-> f]
    ELSE IF file.pos >= Len(file.bytes)
         THEN [f |-> Skip(file, 5),
               freq |-> [f EXCEPT ![ToUChar(EOF)] = read_uint32(file)]]
         ELSE ReadEntries(Skip(file, 5),
                          [f EXCEPT ![ToUChar(fgetc(file))] = read_uint32(Skip(file, 1))],
                          remaining - 1)

\* read_header, lines 219-221: if (encoding_type != HUFF) return NULL
MagicMismatchLow(encoding_type) == encoding_type % 16777216 # HUFF % 16777216
MagicMismatch(encoding_type) == encoding_type # HUFF

\* read_header, lines 217-241, on the stream just opened
read_header(file) ==
    LET encoding_type == read_uint32(file)
        f1 == Skip(file, 4)
        num_unique == read_uint32(f1)
        f2 == Skip(f1, 4)
        padding_bits == fgetc(f2)
        f3 == Skip(f2, 1)
        r == ReadEntries(f3, ZeroFreq, num_unique)
    IN  IF MagicMismatch(encoding_type)
        THEN [f |-> f1, freq |-> ZeroFreq, header |-> NoHeader]
        ELSE [f |-> r.f, freq |-> r.freq,
              header |-> [valid |-> TRUE, num_unique_chars |-> num_unique,
                          padding_bits |-> padding_bits]]

\* decode, lines 427-439
ReadHeader ==
    /\ pc = "decode"
    /\ IF ~container.exists
       THEN /\ stderr' = "Error: Unknown file"
            /\ pc' = "exit1"
            /\ UNCHANGED << container, freq, header >>
       ELSE LET r == read_header(fopen_r(container))
            IN  /\ container' = r.f
                /\ freq' = r.freq
                /\ header' = r.header
                /\ IF r.header.valid
                   THEN pc' = "build" /\ stderr' = stderr
                   ELSE pc' = "exit1" /\ stderr' = "Error: Invalid file format"
    /\ UNCHANGED << cmd, input, output, heap, nodes, tree, encoding_table,
                    writer, padding, dec, sent, built >>

\* decode, line 445, and decode_file, lines 329-355.  total_bits is
\* data_size * 8 - header->padding_bits in size_t: when the padding (as
\* unsigned) exceeds the bit count the difference wraps to more than 2^63,
\* which no count of bits read reaches; `wrapped` records that.
DecodeFileInit ==
    /\ pc = "decode_file"
    /\ output' = fopen_w
    /\ LET data == SubSeq(container.bytes, container.pos + 1, Len(container.bytes))
           bits == Len(data) * 8
           wraps == header.padding_bits < 0 \/ header.padding_bits > bits
       IN  /\ dec' = [data |-> data, wrapped |-> wraps,
                      total_bits |-> IF wraps THEN 0 ELSE bits - header.padding_bits,
                      byte_index |-> 0, bit_index |-> 0, current |-> tree,
                      chars_decoded |-> 0, bits_read |-> 0]
           /\ container' = Skip(fseek(container, container.pos), Len(data))
    /\ pc' = "decode_loop"
    /\ UNCHANGED << cmd, input, freq, heap, nodes, tree, encoding_table,
                    writer, padding, header, stderr, sent, built >>

\* the loop test of decode_file without the padding: every body bit counts
BitsRemainToEnd(d) == d.wrapped \/ d.bits_read < Len(d.data) * 8

\* the loop test of decode_file, line 358
BitsRemain(d) == d.wrapped \/ d.bits_read < d.total_bits

\* read_bit, lines 310-326: the bit returned (EOF for -1) and the reader after
read_bit(d) ==
    IF d.byte_index >= Len(d.data)
    THEN [bit |-> EOF, d |-> d]
    ELSE [bit |-> (d.data[d.byte_index + 1] \div (2 ^ (7 - d.bit_index))) % 2,
          d |-> IF d.bit_index + 1 = 8
                THEN [d EXCEPT !.bit_index = 0, !.byte_index = @ + 1]
                ELSE [d EXCEPT !.bit_index = @ + 1]]

\* decode_file, lines 358-372: one round of the loop.  current->left of a
\* wild pointer kills the process or leaves it in an unknown state;
\* is_leaf(NULL), reached from a root that is a leaf, kills it.  A process
\* killed here loses what fputc left in the unflushed stdio buffer.
DecodeBit ==
    /\ pc = "decode_loop"
    /\ BitsRemain(dec)
    /\ LET r == read_bit(dec)
           d == [r.d EXCEPT !.bits_read = @ + 1]
           next == IF dec.current \in {NULL, WILD} THEN dec.current
                   ELSE IF r.bit = 0 THEN heap[dec.current].left
                        ELSE heap[dec.current].right
       IN  IF r.bit = EOF
           THEN /\ pc' = "exit0"
                /\ UNCHANGED << dec, output >>
           ELSE IF dec.current = WILD
           THEN /\ pc' \in {"segfault", "undefined"}
                /\ dec' = d
                /\ output' = [output EXCEPT !.bytes = << >>, !.pos = 0]
           ELSE IF next = NULL
           THEN /\ pc' = "segfault"
                /\ dec' = [d EXCEPT !.current = NULL]
                /\ output' = [output EXCEPT !.bytes = << >>, !.pos = 0]
           ELSE IF is_leaf(heap, next)
           THEN /\ pc' = pc
                /\ dec' = [d EXCEPT !.current = tree, !.chars_decoded = @ + 1]
                /\ output' = fputc(output, heap[next].character)
           ELSE /\ pc' = pc
                /\ dec' = [d EXCEPT !.current = next]
                /\ UNCHANGED output
    /\ UNCHANGED << cmd, input, container, freq, heap, nodes, tree,
                    encoding_table, writer, padding, header, stderr, sent,
                    built >>

\* decode_file, lines 358 and 374-375: the loop test fails, return
DecodeDone ==
    /\ pc = "decode_loop"
    /\ ~BitsRemain(dec)
    /\ pc' = "exit0"
    /\ UNCHANGED << cmd, input, container, output, freq, heap, nodes, tree,
                    encoding_table, writer, padding, header, dec, stderr, sent,
                    built >>

NextDecode ==
    \/ ReadHeader \/ BuildInit \/ MergeRound \/ BuildReturn
    \/ DecodeFileInit \/ DecodeBit \/ DecodeDone

\* encode of an input file, then decode of the container it wrote
Next == NextEncode \/ RunDecode \/ ReadHeader \/ DecodeFileInit \/ DecodeBit \/ DecodeDone

Spec == Init /\ [][Next]_vars

\* ------------------------------------------- decode of arbitrary containers
Bytes4(value) ==
    << ByteAt(value, 24), ByteAt(value, 16), ByteAt(value, 8), ByteAt(value, 0) >>

\* magic values other than "HUFF": one byte off, byte-reversed, top bit set,
\* all zero
BadMagics ==
    { [Bytes4(HUFF) EXCEPT ![i] = (@ + 1) % 256] : i \in 1 .. 4 }
        \cup { << 70, 70, 85, 72 >>, << 200, 85, 70, 70 >>, << 0, 0, 0, 0 >> }

\* header entries: 'a' x 3, 'b' x 1, 0xC8 x 1
CraftedEntries == { << 97, 0, 0, 0, 3 >>, << 98, 0, 0, 0, 1 >>, << 200, 0, 0, 0, 1 >> }
CraftedPaddings == {0, 4, 9}
CraftedBodyBytes == {224, 80}

RECURSIVE Flatten(_)
Flatten(ss) == IF ss = << >> THEN << >> ELSE Head(ss) \o Flatten(Tail(ss))

\* containers with a good magic: any claimed count, padding, entries, body
GoodContainers ==
    { Bytes4(HUFF) \o Bytes4(n) \o << p >> \o Flatten(es) \o b :
        n \in 0 .. MaxEntries + 1, p \in CraftedPaddings,
        es \in SeqsUpTo(CraftedEntries, MaxEntries),
        b \in SeqsUpTo(CraftedBodyBytes, MaxBody) }

\* otherwise well-formed containers with a bad magic
BadContainers ==
    { m \o Bytes4(Len(es)) \o << 4 >> \o Flatten(es) \o << 224 >> :
        m \in BadMagics, es \in SeqsUpTo(CraftedEntries, MaxEntries) }

\* the crafted containers and every truncation of them
Crafted ==
    UNION { { SubSeq(c, 1, k) : k \in 0 .. Len(c) } :
            c \in GoodContainers \cup BadContainers }

InitDecode ==
    /\ cmd = "decode" /\ pc = "decode"
    /\ input = << >>
    /\ container \in { [NoFile EXCEPT !.exists = TRUE, !.bytes = b] : b \in Crafted }
    /\ output = NoFile
    /\ FreshProcess
    /\ built = NoTree

SpecDecode == InitDecode /\ [][NextDecode]_vars

\* ------------------------------------------------ the bit writer on its own
InitBits ==
    /\ cmd = "bits" /\ pc = "bits"
    /\ input = << >>
    /\ container = fopen_w /\ output = NoFile
    /\ FreshProcess
    /\ built = NoTree

\* one call write_bit(&writer, b)
WriteBit ==
    /\ pc = "bits"
    /\ Len(sent) < MaxBits
    /\ \E b \in {0, 1} :
          LET r == write_bit(writer, container, b)
          IN  /\ writer' = r.w
              /\ container' = r.f
              /\ sent' = Append(sent, b)
    /\ UNCHANGED << cmd, pc, input, output, freq, heap, nodes, tree,
                    encoding_table, padding, header, dec, stderr, built >>

\* the call flush_bits(&writer) that ends the sequence
FlushWriter ==
    /\ pc = "bits"
    /\ LET r == flush_bits(writer, container)
       IN  /\ writer' = r.w
           /\ container' = r.f
           /\ padding' = r.padding
    /\ pc' = "flushed"
    /\ UNCHANGED << cmd, input, output, freq, heap, nodes, tree,
                    encoding_table, header, dec, stderr, sent, built >>

NextBits == WriteBit \/ FlushWriter

SpecBits == InitBits /\ [][NextBits]_vars

\* --------------------------- the tree and the table of any frequency table
\* counts of bytes that occur 2^30 and 2^31 times in the input; the word
\* 0x80000000 is INT_MIN once create_node has stored it in int weight
Count2To30 == 1073741824
Count2To31 == -2147483647 - 1

\* frequency tables over Symbols: counts 0 .. MaxFreq, 2^30 and 2^31
FreqTables ==
    { [i \in Byte |-> IF i \in Symbols THEN t[i] ELSE 0] :
        t \in [Symbols -> (0 .. MaxFreq) \cup {Count2To30, Count2To31}] }

\* encode, lines 401-406, entered with the table its counting loop left
InitTree ==
    /\ cmd = "tree" /\ pc = "build"
    /\ input = << >>
    /\ container = NoFile /\ output = NoFile
    /\ freq \in FreqTables
    /\ heap = << >> /\ nodes = << >> /\ tree = NULL
    /\ encoding_table = ZeroTable /\ writer = NewWriter /\ padding = 0
    /\ header = NoHeader /\ dec = NoDec /\ stderr = "" /\ sent = << >>
    /\ built = NoTree

NextTree == BuildInit \/ MergeRound \/ BuildReturn \/ BuildEncodingTable

SpecTree == InitTree /\ [][NextTree]_vars

\* ------------------------------------ encode and decode of very long inputs
\* inputs with at least one run of 2^32 equal bytes, the byte of a run
\* occurring in whole runs only
LongInputs ==
    { s \in SeqsUpTo(Symbols \cup { Run2To32(b) : b \in Symbols }, MaxLong) :
        /\ \E i \in DOMAIN s : IsRun(s[i])
        /\ \A i \in DOMAIN s : \A j \in DOMAIN s :
              IsRun(s[i]) => s[j] # RunByte(s[i]) }

InitLong ==
    /\ cmd = "encode" /\ pc = "encode"
    /\ input \in LongInputs
    /\ container = NoFile /\ output = NoFile
    /\ FreshProcess
    /\ built = NoTree

SpecLong == InitLong /\ [][Next]_vars

\* =================================================================== claims
\* helpers that read a container's bytes on their own, not through the code
MagicOK(bytes) == Len(bytes) >= 4 /\ SubSeq(bytes, 1, 4) = << 72, 85, 70, 70 >>

\* big-endian value of the 4 bytes at offset off (0-based); top byte < 128
U32At(bytes, off) ==
    bytes[off + 1] * 16777216 + bytes[off + 2] * 65536
        + bytes[off + 3] * 256 + bytes[off + 4]

Distinct(bytes) == { bytes[i] : i \in DOMAIN bytes }
Occurrences(b, bytes) == Cardinality({ i \in DOMAIN bytes : bytes[i] = b })

\* Counts and lengths that may pass 2^32 are pairs: high * 2^32 + low.
\* The byte values of an input with runs, the number of times one of them
\* occurs, and the length of the input:
SizeT(n) == [high |-> 0, low |-> n]
InputBytes(bytes) ==
    { IF IsRun(bytes[i]) THEN RunByte(bytes[i]) ELSE bytes[i] : i \in DOMAIN bytes }
Runs(bytes) == Cardinality({ i \in DOMAIN bytes : IsRun(bytes[i]) })
OccurrencesOf(b, bytes) ==
    [high |-> Occurrences(Run2To32(b), bytes), low |-> Occurrences(b, bytes)]
FileLength(bytes) == [high |-> Runs(bytes), low |-> Len(bytes) - Runs(bytes)]
Terminated == pc \in {"exit0", "exit1", "segfault", "undefined"}

\* C1: for every non-empty input S, decode of the container encode wrote for
\* S ends normally having written exactly the bytes of S.
RoundTrip ==
    (cmd = "decode" /\ Terminated /\ input # << >>)
        => (pc = "exit0" /\ output.exists /\ output.bytes = input)

\* C2: an input of n >= 1 copies of one byte gives a header with N = 1, a
\* one-bit code for that byte, and decodes back to the same n bytes.
OneSymbol == input # << >> /\ Cardinality(Distinct(input)) = 1

SingleSymbolCase ==
    /\ (OneSymbol /\ cmd = "encode" /\ pc = "exit0")
           => /\ U32At(container.bytes, 4) = 1
              /\ Len(encoding_table[input[1]].code) = 1
    /\ (OneSymbol /\ cmd = "decode" /\ Terminated)
           => (pc = "exit0" /\ output.bytes = input)

\* C3: with an empty input encode reports an error before the tree builder
\* is entered: it is never past frequency counting with an all-zero table
\* unless it has ended with an error, and it writes no container.
EmptyInputRejected ==
    (cmd = "encode" /\ input = << >>)
        => /\ pc \in {"encode", "exit1"}
           /\ ~container.exists
           /\ (pc = "exit1" => stderr # "")

\* C4: a container with a good magic whose header claims more entries or
\* more body bits than the file holds is reported: decode never goes past
\* read_header with it and never reads a header field from beyond the end.
ClaimsTooMuch(bytes) ==
    \/ Len(bytes) < 9
    \/ /\ bytes[5] < 128
       /\ \/ Len(bytes) < 9 + 5 * U32At(bytes, 4)
          \/ bytes[9] > 8 * (Len(bytes) - 9 - 5 * U32At(bytes, 4))
    \/ bytes[5] >= 128

TruncationReported ==
    (cmd = "decode" /\ MagicOK(container.bytes) /\ ClaimsTooMuch(container.bytes))
        => /\ pc \in {"decode", "exit1"}
           /\ ~container.eof
           /\ (pc = "exit1" => stderr # "")

\* C5: a container whose first 4 bytes are not "HUFF" makes decode end with
\* an error; the output file is never opened and no tree node is built.
MalformedMagicRejected ==
    (cmd = "decode" /\ container.exists /\ ~MagicOK(container.bytes))
        => /\ pc \in {"decode", "exit1"}
           /\ (pc = "exit1" => stderr = "Error: Invalid file format")
           /\ ~output.exists
           /\ heap = << >> /\ nodes = << >> /\ tree = NULL

\* a 4-byte wrong magic followed by a well-formed rest has been rejected
MalformedMagicSeen ==
    /\ cmd = "decode" /\ pc = "exit1"
    /\ Len(container.bytes) > 9
    /\ SubSeq(container.bytes, 2, 4) = << 85, 70, 70 >>
    /\ container.bytes[1] # 72
    /\ stderr = "Error: Invalid file format"

\* C6: in every code table build_encoding_table derives from the tree of
\* build_huffman_tree, no present symbol's code is a prefix of another's
\* and an entry exists for exactly the symbols with non-zero frequency.
\* (From the all-zero table no tree and so no code table is derived.)
IsPrefix(x, y) == Len(x) <= Len(y) /\ SubSeq(y, 1, Len(x)) = x

TableDerived == cmd = "encode" /\ pc \in {"open", "header", "body", "flush", "patch", "exit0"}

PrefixFree ==
    TableDerived
        => /\ \A a \in Byte : encoding_table[a].exists = (IF freq[a] # 0 THEN 1 ELSE 0)
           /\ \A a \in Byte : freq[a] # 0 =>
                 \A b \in Byte : (freq[b] # 0 /\ a # b) =>
                     ~IsPrefix(encoding_table[a].code, encoding_table[b].code)

\* a table for four symbols with codes of 1, 2, 3 and 3 bits has been derived
PrefixFreeSeen ==
    /\ cmd = "encode" /\ pc = "open"
    /\ \A a \in Symbols : freq[a] # 0
    /\ { Len(encoding_table[a].code) : a \in Symbols } = {1, 2, 3}

\* C7: after any sequence of write_bit calls and flush_bits, the padding
\* returned is in 0 .. 7, 8 * (bytes emitted) - padding is the number of
\* bits written, and a flush with no pending bits emits nothing, returns 0.
PaddingBound ==
    (cmd = "bits" /\ pc = "flushed")
        => /\ padding \in 0 .. 7
           /\ Len(container.bytes) * 8 - padding = Len(sent)
           /\ writer.total_bits_written = Len(sent)
           /\ (Len(sent) % 8 = 0
                  => padding = 0 /\ Len(container.bytes) * 8 = Len(sent))

\* nine bits were written and flushed: two bytes, seven padding bits
PaddingSeen ==
    /\ cmd = "bits" /\ pc = "flushed"
    /\ Len(sent) = 9 /\ Len(container.bytes) = 2 /\ padding = 7

\* eight bits were written and flushed: one byte, the flush added nothing
PaddingZeroSeen ==
    /\ cmd = "bits" /\ pc = "flushed"
    /\ Len(sent) = 8 /\ Len(container.bytes) = 1 /\ padding = 0

\* C8: in a container written by encode the header's count field is the
\* number of distinct input bytes, the entries listed are one per distinct
\* byte with its non-zero number of occurrences, and they sum to the
\* input's length.
EntrySymbol(bytes, k) == bytes[9 + 5 * (k - 1) + 1]
EntryFrequency(bytes, k) == U32At(bytes, 9 + 5 * (k - 1) + 1)

RECURSIVE SumFrequencies(_, _)
SumFrequencies(bytes, k) ==
    IF k = 0 THEN 0 ELSE EntryFrequency(bytes, k) + SumFrequencies(bytes, k - 1)

HeaderWritten == cmd = "encode" /\ pc \in {"body", "flush", "patch", "exit0"}

HeaderAccuracy ==
    HeaderWritten =>
        LET b == container.bytes
            n == U32At(b, 4)
        IN  /\ Len(b) >= 9 + 5 * n
            /\ n = Cardinality(InputBytes(input))
            /\ { EntrySymbol(b, k) : k \in 1 .. n } = InputBytes(input)
            /\ \A k \in 1 .. n :
                  /\ EntryFrequency(b, k) # 0
                  /\ SizeT(EntryFrequency(b, k)) = OccurrencesOf(EntrySymbol(b, k), input)
            /\ SizeT(SumFrequencies(b, n)) = FileLength(input)

\* encode has ended on an input of the greatest length with four distinct bytes
HeaderAccuracySeen ==
    /\ cmd = "encode" /\ pc = "exit0"
    /\ Len(input) = MaxLen
    /\ U32At(container.bytes, 4) = 4
    /\ SumFrequencies(container.bytes, 4) = MaxLen

\* C9: every round of build_huffman_tree takes the list in ascending weight
\* order, ties in list order, removes the first two, and puts at the front
\* a new node of their summed weight with left = first, right = second;
\* with k >= 1 present symbols the loop ends with one node after k - 1
\* merges.  For "aaab": root of weight 4 over leaves b (1) and a (3), two
\* one-bit codes, a one-byte body of 4 code bits and 4 padding bits.
Rank(h, ns, i) ==
    1 + Cardinality({ j \in DOMAIN ns :
                        \/ h[ns[j]].weight < h[ns[i]].weight
                        \/ h[ns[j]].weight = h[ns[i]].weight /\ j < i })

StableSorted(h, ns) ==
    [k \in DOMAIN ns |-> ns[CHOOSE i \in DOMAIN ns : Rank(h, ns, i) = k]]

MergeStep ==
    (pc = "merge" /\ Len(nodes) > 1) =>
        LET s == StableSorted(heap, nodes)
            p == Len(heap) + 1
        IN  /\ Len(heap') = p
            /\ SubSeq(heap', 1, Len(heap)) = heap
            /\ ~IntOverflow(heap[s[1]].weight, heap[s[2]].weight)
            /\ heap'[p].weight = heap[s[1]].weight + heap[s[2]].weight
            /\ pc' = pc
            /\ heap'[p].left = s[1]
            /\ heap'[p].right = s[2]
            /\ nodes' = << p >> \o SubSeq(s, 3, Len(s))

TreeBuilt ==
    (pc \in {"table", "decode_file"} /\ input # << >>)
        => /\ Len(nodes) = 1
           /\ tree = nodes[1]
           /\ Len(heap) - Cardinality(Distinct(input)) = Cardinality(Distinct(input)) - 1

aaab == << 97, 97, 97, 98 >>

SmallVector ==
    (cmd = "encode" /\ input = aaab)
        => /\ pc = "table" =>
                 /\ heap[tree].weight = 4
                 /\ heap[heap[tree].left] = create_node(98, 1)
                 /\ heap[heap[tree].right] = create_node(97, 3)
           /\ TableDerived =>
                 /\ Len(encoding_table[97].code) = 1
                 /\ Len(encoding_table[98].code) = 1
           /\ pc = "exit0" =>
                 /\ Len(container.bytes) = 9 + 5 * 2 + 1
                 /\ writer.total_bits_written = 4
                 /\ padding = 4

MergeRule == [][MergeStep]_vars /\ [](TreeBuilt /\ SmallVector)

\* "aaab" has been encoded: body byte 11100000 after the 19 header bytes
SmallVectorSeen ==
    /\ cmd = "encode" /\ pc = "exit0" /\ input = aaab
    /\ container.bytes = << 72, 85, 70, 70, 0, 0, 0, 2, 4,
                            97, 0, 0, 0, 3, 98, 0, 0, 0, 1, 224 >>

\* a round has merged two nodes of equal weight out of three
TieMergeSeen ==
    /\ pc = "merge" /\ Len(nodes) = 2 /\ Len(heap) = 4
    /\ heap[1].weight = heap[2].weight
    /\ heap[4].left = 1 /\ heap[4].right = 2

\* C10: the header goes out with 0 at offset 8 before any body byte; the
\* body is appended after it; the patch after the flush overwrites offset 8
\* alone with the padding flush returned; the finished container holds the
\* magic, the count, the entries in ascending symbol order and the body as
\* first written.
RECURSIVE CodeBits(_, _)
CodeBits(table, bytes) ==
    IF bytes = << >> THEN 0
    ELSE Len(table[Head(bytes)].code) + CodeBits(table, Tail(bytes))

HeaderLayout(b) ==
    /\ MagicOK(b)
    /\ U32At(b, 4) = Cardinality(Distinct(input))
    /\ Len(b) >= 9 + 5 * U32At(b, 4)
    /\ \A k \in 1 .. U32At(b, 4) - 1 : EntrySymbol(b, k) < EntrySymbol(b, k + 1)

PlaceholderFirst ==
    /\ (cmd = "encode" /\ pc = "body")
           => /\ HeaderLayout(container.bytes)
              /\ Len(container.bytes) = 9 + 5 * U32At(container.bytes, 4)
    /\ (cmd = "encode" /\ pc \in {"body", "flush", "patch"})
           => container.bytes[9] = 0
    /\ (cmd = "encode" /\ pc = "exit0")
           => /\ HeaderLayout(container.bytes)
              /\ container.bytes[9] = padding
              /\ padding = (8 - (CodeBits(encoding_table, input) % 8)) % 8
              /\ (Len(container.bytes) - 9 - 5 * U32At(container.bytes, 4)) * 8
                     = CodeBits(encoding_table, input) + padding

BodyAppends ==
    (cmd = "encode" /\ pc \in {"body", "flush"})
        => SubSeq(container'.bytes, 1, Len(container.bytes)) = container.bytes

PatchStep ==
    (cmd = "encode" /\ pc = "patch")
        => container'.bytes = [container.bytes EXCEPT ![9] = padding]

HeaderPatch == []PlaceholderFirst /\ [][BodyAppends /\ PatchStep]_vars

\* a container of four entries and a two-byte body has had offset 8 patched
HeaderPatchSeen ==
    /\ cmd = "encode" /\ pc = "exit0"
    /\ U32At(container.bytes, 4) = 4
    /\ Len(container.bytes) = 9 + 5 * 4 + 2
    /\ container.bytes[9] # 0

\* ---------------------------------------------------------------- C11
\* decode is inside, or has returned from, the loop of decode_file
InDecodeLoop == cmd = "decode" /\ pc = "decode_loop"
LoopEnded == cmd = "decode" /\ pc = "exit0"

\* the bound is body bytes * 8 - padding, the reader stands on the bit the
\* count says, and the loop is left with the count equal to the bound
LoopBoundState ==
    (InDecodeLoop \/ LoopEnded) =>
        /\ ~dec.wrapped
        /\ header.padding_bits \in 0 .. 7
        /\ dec.total_bits = Len(dec.data) * 8 - header.padding_bits
        /\ dec.bits_read <= dec.total_bits
        /\ dec.byte_index * 8 + dec.bit_index = dec.bits_read
        /\ Len(output.bytes) = dec.chars_decoded
        /\ LoopEnded => dec.bits_read = dec.total_bits

\* a round of the loop consumes one bit that is not a padding bit and is
\* not the sentinel; with the bound reached the only step is the return,
\* which consumes nothing and writes nothing
LoopStep ==
    InDecodeLoop =>
        IF dec.bits_read < dec.total_bits
        THEN /\ read_bit(dec).bit \in {0, 1}
             /\ dec.byte_index * 8 + dec.bit_index < dec.total_bits
             /\ dec'.bits_read = dec.bits_read + 1
             /\ pc' = "decode_loop"
        ELSE /\ pc' = "exit0"
             /\ dec' = dec
             /\ output' = output

\* C11: on a container written by encode, decode_file takes exactly
\* (body bytes * 8 - padding) bits as traversal steps and then leaves the
\* loop by its test; no padding bit is read, none produces a symbol, and
\* read_bit never returns its end-of-stream value.
DecodeLoopBound == []LoopBoundState /\ [][LoopStep]_vars

\* a two-byte body with padding has been decoded up to the padding
DecodeLoopBoundSeen ==
    /\ LoopEnded
    /\ Len(dec.data) = 2
    /\ header.padding_bits > 0
    /\ dec.bits_read = 16 - header.padding_bits
    /\ dec.chars_decoded = Len(input)

\* ---------------------------------------------------------------- C12
\* C12: for every frequency table, each code build_encoding_table writes
\* is at most (number of present symbols - 1) characters long, the number
\* of present symbols is at most 256, and so the code with its terminator
\* fits code_buffer[256] and HuffmanCode.code[256]; the chain-shaped tree,
\* whose deepest leaf lies at that depth, included.
CodeFitsBuffer ==
    /\ NumUnique(freq) <= ENCODING_TABLE_SIZE
    /\ \A a \in Byte :
          encoding_table[a].exists = 1 =>
              /\ Len(encoding_table[a].code) <= NumUnique(freq) - 1
              /\ Len(encoding_table[a].code) + 1 <= ENCODING_TABLE_SIZE

\* the table of a chain-shaped tree over four symbols has been derived:
\* codes of 1, 2, 3 and 3 characters
ChainTreeSeen ==
    /\ cmd = "tree" /\ pc = "open"
    /\ NumUnique(freq) = 4
    /\ \E a \in Symbols : Len(encoding_table[a].code) = NumUnique(freq) - 1
    /\ \E a \in Symbols : Len(encoding_table[a].code) = 1

\* ---------------------------------------------------------------- C13
\* x > y for two 32-bit words read as unsigned int
UnsignedGreater(x, y) == (x < 0 /\ y >= 0) \/ ((x < 0) = (y < 0) /\ x > y)

\* C13: for every frequency table with two or more present symbols, the
\* merges of build_huffman_tree join the two lightest nodes, so that a
\* symbol with the greater frequency never has the longer code in the
\* table build_encoding_table derives.
FrequencyOrdersLength ==
    (cmd = "tree" /\ pc = "open" /\ NumUnique(freq) >= 2) =>
        \A a \in Byte : \A b \in Byte :
            (freq[a] # 0 /\ freq[b] # 0 /\ UnsignedGreater(freq[a], freq[b]))
                => Len(encoding_table[a].code) <= Len(encoding_table[b].code)

\* ---------------------------------------------------------------- C14
\* C14: for every input with two or more distinct byte values, decode of
\* the container encode wrote builds the very tree encode built, ends
\* normally with the input's bytes in its output file, has emitted as many
\* symbols as the input is long, and ends with the cursor at the root.
\* (An output file of the model holds single bytes only: it equals no
\* input that has a run.)
RoundTripTwo ==
    (cmd = "decode" /\ Cardinality(InputBytes(input)) >= 2) =>
        /\ pc = "decode_file" => [heap |-> heap, tree |-> tree] = built
        /\ Terminated =>
              /\ pc = "exit0"
              /\ output.bytes = input
              /\ SizeT(dec.chars_decoded) = FileLength(input)
              /\ dec.current = tree

\* ---------------------------------------------------------------- C15
\* decode_file is about to consume a body bit: the loop test holds and
\* read_bit has a bit to return
BitConsumed ==
    /\ InDecodeLoop
    /\ BitsRemain(dec)
    /\ read_bit(dec).bit # EOF

\* C15: for every container read_header accepts, whatever its symbol
\* count, padding and body, each body bit decode_file consumes finds the
\* cursor at an internal node with both children, so that current->left
\* or current->right is a node; headers with one entry or none, followed
\* by body bytes, included.
CursorInternal ==
    BitConsumed =>
        /\ dec.current \in DOMAIN heap
        /\ heap[dec.current].left \in DOMAIN heap
        /\ heap[dec.current].right \in DOMAIN heap

====
